---- MODULE Spec2Model ----
(***************************************************************************)
(* Model of the RACS REST client (src/racs.go): the constructor NewRacs,   *)
(* the nine client operations, the shared helper makeRequest, and the     *)
(* caller-visible outcome of each call.                                    *)
(*                                                                         *)
(* Strings are sequences of tokens.  A token is either an opaque chunk of  *)
(* ordinary characters ("abc", "resource") or one character that URL      *)
(* parsing treats specially ("?", "&", "=", "#", "/", a control byte).     *)
(* Go values and JSON values are tagged records, so that json.Marshal and  *)
(* the JSON decoder are conversions between two different universes.       *)
(***************************************************************************)
EXTENDS Integers, Sequences, FiniteSets, TLC

\* ------------------------------------------------------------- bounds
\* Largest matchedCount / modifiedCount / deletedCount a response carries.
MaxCount == 2
\* Largest limit argument given to ReadPostByFilter (the smallest is -1).
MaxLimit == 1

\* ------------------------------------------------------------- strings
CTL == "<LF>"
EmptyStr == << >>
BaseURLDefault == <<"https://racs.rest/v3">>

RECURSIVE IndexOf(_, _, _)
\* strings.Index: the first position >= i of token c in s, 0 when absent.
IndexOf(s, c, i) ==
    IF i > Len(s) THEN 0
    ELSE IF s[i] = c THEN i
    ELSE IndexOf(s, c, i + 1)

\* strings.Cut: the parts of s before and after the first c.
CutBefore(s, c) ==
    LET k == IndexOf(s, c, 1) IN IF k = 0 THEN s ELSE SubSeq(s, 1, k - 1)
CutAfter(s, c) ==
    LET k == IndexOf(s, c, 1) IN IF k = 0 THEN << >> ELSE SubSeq(s, k + 1, Len(s))
HasToken(s, c) == IndexOf(s, c, 1) # 0

RECURSIVE SplitOn(_, _)
\* strings.Split: the pieces of s between occurrences of c.
SplitOn(s, c) ==
    IF ~HasToken(s, c) THEN << s >>
    ELSE << CutBefore(s, c) >> \o SplitOn(CutAfter(s, c), c)

\* ------------------------------------------------------------- Go values
GNil == [g |-> "nil"]                       \* the nil interface value
GNilMap == [g |-> "nilmap"]                 \* a nil map[string]interface{}
GMap(m) == [g |-> "map", m |-> m]           \* a non-nil map
GInt(i) == [g |-> "int", i |-> i]
GFloat(n) == [g |-> "float64", f |-> n]
GStr(s) == [g |-> "string", s |-> s]
GChan == [g |-> "chan"]                     \* a value json.Marshal rejects
EmptyMap == GMap(<< >>)

\* ------------------------------------------------------------- JSON values
JNull == [j |-> "null"]
JNum(n) == [j |-> "num", n |-> n]
JStr(s) == [j |-> "str", s |-> s]
JObj(m) == [j |-> "obj", m |-> m]
JArr == [j |-> "arr"]
JInvalid == [j |-> "invalid"]               \* a body that is no JSON text

RECURSIVE MarshalOK(_)
\* json.Marshal succeeds on v.
MarshalOK(v) ==
    CASE v.g = "chan" -> FALSE
      [] v.g = "map" -> \A k \in DOMAIN v.m : MarshalOK(v.m[k])
      [] OTHER -> TRUE

RECURSIVE MarshalJSON(_)
\* json.Marshal: the JSON text written for a Go value that marshals.
MarshalJSON(v) ==
    CASE v.g = "nil" -> JNull
      [] v.g = "nilmap" -> JNull
      [] v.g = "map" -> JObj([k \in DOMAIN v.m |-> MarshalJSON(v.m[k])])
      [] v.g = "int" -> JNum(v.i)
      [] v.g = "float64" -> JNum(v.f)
      [] v.g = "string" -> JStr(v.s)
      [] OTHER -> JInvalid

RECURSIVE FromJSON(_)
\* The Go value the decoder stores in an interface{} for a JSON value.
FromJSON(j) ==
    CASE j.j = "null" -> GNil
      [] j.j = "num" -> GFloat(j.n)
      [] j.j = "str" -> GStr(j.s)
      [] j.j = "obj" -> GMap([k \in DOMAIN j.m |-> FromJSON(j.m[k])])
      [] OTHER -> GNil

\* json.NewDecoder(body).Decode(&result) with result a nil map[string]interface{}.
Decode(body) ==
    CASE body.j = "null" -> [ok |-> TRUE, result |-> GNilMap]
      [] body.j = "obj" -> [ok |-> TRUE, result |-> FromJSON(body)]
      [] OTHER -> [ok |-> FALSE, result |-> GNilMap]

\* ------------------------------------------------------------- errors
NoErr == "nil"
ErrNoUpdatesMade == "no updates were made"
ErrFailedDelete == "failed to delete post"
ErrValidation == "validation"
ErrMarshal == "marshal"
ErrOpen == "open"
ErrRead == "read"
ErrNewRequest == "new request"
ErrTransport == "transport"
ErrDecode == "decode"

\* ------------------------------------------------------------- requests
NoHeaders == [k \in {} |-> ""]
BodyNone == [b |-> "none"]
BodyJSON(j) == [b |-> "json", j |-> j]
BodyRaw(bytes) == [b |-> "raw", bytes |-> bytes]

\* url.ParseQuery: the key/value pairs of a raw query, in order.
ParseQuery(raw) ==
    LET pieces == SplitOn(raw, "&")
        kept == SelectSeq(pieces, LAMBDA x : x # << >>)
    IN [i \in 1..Len(kept) |-> << CutBefore(kept[i], "="), CutAfter(kept[i], "=") >>]

\* url.Values.Get, with a missing key told apart from an empty value.
Absent == <<"<absent>">>
QueryGet(q, key) ==
    LET hits == SelectSeq(q, LAMBDA kv : kv[1] = key)
    IN IF hits = << >> THEN Absent ELSE hits[1][2]

\* http.NewRequest: rejects a URL holding a control byte; otherwise splits the
\* fragment off (it is never sent), then the query off the path.
NewRequest(method, url, body) ==
    IF HasToken(url, CTL) THEN [ok |-> FALSE]
    ELSE LET noFrag == CutBefore(url, "#")
         IN [ok |-> TRUE,
             req |-> [method |-> method,
                      path |-> CutBefore(noFrag, "?"),
                      query |-> ParseQuery(CutAfter(noFrag, "?")),
                      header |-> NoHeaders,
                      body |-> body]]

\* req.Header.Set for every entry of hs.
SetAll(h, hs) ==
    [k \in DOMAIN h \cup DOMAIN hs |-> IF k \in DOMAIN hs THEN hs[k] ELSE h[k]]

\* fmt.Sprintf("...?resource=%s&dataset=%s", ..., r.Resource, r.Dataset)
QueryString(r) ==
    <<"?", "resource", "=">> \o r.Resource \o <<"&", "dataset", "=">> \o r.Dataset
\* fmt.Sprintf("%s?resource=%s&dataset=%s", r.BaseURL, ...)
URLBase(r) == r.BaseURL \o QueryString(r)
\* fmt.Sprintf("%s/%s?resource=%s&dataset=%s", r.BaseURL, postID, ...)
URLByID(r, postID) == r.BaseURL \o <<"/">> \o postID \o QueryString(r)
\* fmt.Sprintf("%s/get?resource=%s&dataset=%s", r.BaseURL, ...)
URLGet(r) == r.BaseURL \o <<"/", "get">> \o QueryString(r)
\* fmt.Sprintf("%s/file/%s?resource=%s&dataset=%s", r.BaseURL, postID, ...)
URLFile(r, postID) == r.BaseURL \o <<"/", "file", "/">> \o postID \o QueryString(r)

\* ------------------------------------------------------------- constructor
Nil == [nil |-> TRUE]

NewRacsTypo(resource, dataset) ==
    IF resource = EmptyStr /\ dataset = EmptyStr
    THEN [client |-> Nil, err |-> ErrValidation]
    ELSE [client |-> [Resource |-> resource,
                      Dataset |-> dataset,
                      Headers |-> ("Content-Type" :> "application/json"),
                      BaseURL |-> BaseURLDefault],
          err |-> NoErr]

NewRacs(resource, dataset) ==
    IF resource = EmptyStr THEN [client |-> Nil, err |-> ErrValidation]
    ELSE IF dataset = EmptyStr THEN [client |-> Nil, err |-> ErrValidation]
    ELSE [client |-> [Resource |-> resource,
                      Dataset |-> dataset,
                      Headers |-> ("Content-Type" :> "application/json"),
                      BaseURL |-> BaseURLDefault],
          err |-> NoErr]

\* ------------------------------------------------------------- sending
\* What a handler has done when it blocks in client.Do or returns before it:
\* err (NoErr when a request is out), the requests handed to client.Do so far,
\* whether os.Open was called, whether the file is still open, and the client
\* object r as the handler leaves it.
Early(r, err) ==
    [r |-> r, err |-> err, sent |-> << >>, fopened |-> FALSE, fileOpen |-> FALSE]
Sent(r, req, file) ==
    [r |-> r, err |-> NoErr, sent |-> << req >>, fopened |-> file, fileOpen |-> file]

MakeRequestSendRetry(r, method, url, body) ==
    LET nr == NewRequest(method, url, body)
        req == [nr.req EXCEPT !.header = SetAll(@, r.Headers)]
    IN IF ~nr.ok THEN Early(r, ErrNewRequest)
       ELSE [Sent(r, req, FALSE) EXCEPT !.sent = << req, req >>]

\* makeRequest up to client.Do
MakeRequestSend(r, method, url, body) ==
    LET nr == NewRequest(method, url, body)
    IN IF ~nr.ok THEN Early(r, ErrNewRequest)
       ELSE Sent(r, [nr.req EXCEPT !.header = SetAll(@, r.Headers)], FALSE)

CreatePostSend(r, data) ==
    IF data = GNilMap THEN Early(r, ErrValidation)
    ELSE IF ~MarshalOK(data) THEN Early(r, ErrMarshal)
    ELSE MakeRequestSend(r, "POST", URLBase(r), BodyJSON(MarshalJSON(data)))

CreateFileSendSharedHeaders(r, filePath, fenv) ==
    LET r2 == [r EXCEPT !.Headers = ("Content-Type" :> "multipart/form-data") @@ @]
    IN IF filePath = EmptyStr THEN Early(r, ErrValidation)
       ELSE IF fenv.s = "noent" THEN [Early(r, ErrOpen) EXCEPT !.fopened = TRUE]
       ELSE IF fenv.s = "readerr" THEN [Early(r, ErrRead) EXCEPT !.fopened = TRUE]
       ELSE LET nr == NewRequest("POST", URLBase(r), BodyRaw(fenv.bytes))
            IN IF ~nr.ok THEN [Early(r, ErrNewRequest) EXCEPT !.fopened = TRUE]
               ELSE Sent(r2, [nr.req EXCEPT !.header = SetAll(@, r2.Headers)], TRUE)

\* fenv is what the file system answers for filePath: "noent" (os.Open fails),
\* "readerr" (io.Copy fails) or "ok" with the file's bytes.
CreateFileSend(r, filePath, fenv) ==
    IF filePath = EmptyStr THEN Early(r, ErrValidation)
    ELSE IF fenv.s = "noent" THEN [Early(r, ErrOpen) EXCEPT !.fopened = TRUE]
    ELSE IF fenv.s = "readerr" THEN [Early(r, ErrRead) EXCEPT !.fopened = TRUE]
    ELSE LET nr == NewRequest("POST", URLBase(r), BodyRaw(fenv.bytes))
         IN IF ~nr.ok THEN [Early(r, ErrNewRequest) EXCEPT !.fopened = TRUE]
            ELSE Sent(r, [nr.req EXCEPT
                         !.header = SetAll(@, "Content-Type" :> "multipart/form-data")],
                      TRUE)

ReadPostByIDSend(r, postID) ==
    IF postID = EmptyStr THEN Early(r, ErrValidation)
    ELSE MakeRequestSend(r, "GET", URLByID(r, postID), BodyNone)

ReadPostByFilterPayloadClamp(filterData, sort, limit) ==
    LET f == IF filterData = GNil THEN EmptyMap ELSE filterData
        s == IF sort = GNil THEN GMap("_created" :> GInt(-1)) ELSE sort
        l == IF limit <= 0 THEN 1 ELSE limit
    IN GMap(("filter" :> f) @@ ("sort" :> s) @@ ("limit" :> GInt(l)))

\* The payload ReadPostByFilter marshals, after its defaults.
ReadPostByFilterPayload(filterData, sort, limit) ==
    LET f == IF filterData = GNil THEN EmptyMap ELSE filterData
        s == IF sort = GNil THEN GMap("_created" :> GInt(-1)) ELSE sort
        l == IF limit = 0 THEN 1 ELSE limit
    IN GMap(("filter" :> f) @@ ("sort" :> s) @@ ("limit" :> GInt(l)))

ReadPostByFilterSend(r, filterData, sort, limit) ==
    LET payload == ReadPostByFilterPayload(filterData, sort, limit)
    IN IF ~MarshalOK(payload) THEN Early(r, ErrMarshal)
       ELSE MakeRequestSend(r, "POST", URLGet(r), BodyJSON(MarshalJSON(payload)))

ReadFileByIDSend(r, postID) ==
    IF postID = EmptyStr THEN Early(r, ErrValidation)
    ELSE LET nr == NewRequest("GET", URLFile(r, postID), BodyNone)
         IN IF ~nr.ok THEN Early(r, ErrNewRequest)
            ELSE Sent(r, [nr.req EXCEPT
                         !.header = SetAll(@, "Accept" :> "application/octet-stream")],
                      FALSE)

UpdatePostByIDSend(r, postID, updateOptions) ==
    IF postID = EmptyStr THEN Early(r, ErrValidation)
    ELSE IF updateOptions = GNilMap THEN Early(r, ErrValidation)
    ELSE LET payload == GMap("update" :> GMap("$set" :> updateOptions))
         IN IF ~MarshalOK(payload) THEN Early(r, ErrMarshal)
            ELSE MakeRequestSend(r, "PATCH", URLByID(r, postID),
                                 BodyJSON(MarshalJSON(payload)))

UpdatePostByFilterSendUnchecked(r, filterData, updateOptions) ==
    IF filterData = GNilMap THEN Early(r, ErrValidation)
    ELSE LET payload == GMap(("filter" :> filterData)
                             @@ ("update" :> GMap("$set" :> updateOptions)))
         IN IF ~MarshalOK(payload) THEN Early(r, ErrMarshal)
            ELSE MakeRequestSend(r, "PATCH", URLBase(r),
                                 BodyJSON(MarshalJSON(payload)))

UpdatePostByFilterSend(r, filterData, updateOptions) ==
    IF filterData = GNilMap THEN Early(r, ErrValidation)
    ELSE IF updateOptions = GNilMap THEN Early(r, ErrValidation)
    ELSE LET payload == GMap(("filter" :> filterData)
                             @@ ("update" :> GMap("$set" :> updateOptions)))
         IN IF ~MarshalOK(payload) THEN Early(r, ErrMarshal)
            ELSE MakeRequestSend(r, "PATCH", URLBase(r),
                                 BodyJSON(MarshalJSON(payload)))

DeletePostByIDSend(r, postID) ==
    IF postID = EmptyStr THEN Early(r, ErrValidation)
    ELSE MakeRequestSend(r, "DELETE", URLByID(r, postID), BodyNone)

DeletePostByFilterSend(r, filterData) ==
    IF filterData = GNilMap THEN Early(r, ErrValidation)
    ELSE LET payload == GMap("filter" :> filterData)
         IN IF ~MarshalOK(payload) THEN Early(r, ErrMarshal)
            ELSE MakeRequestSend(r, "DELETE", URLBase(r),
                                 BodyJSON(MarshalJSON(payload)))

\* ------------------------------------------------------------- receiving
\* What client.Do answers: a transport error, or a response whose body is open.
NetErr == [kind |-> "err", body |-> JInvalid]
NetBody(b) == [kind |-> "body", body |-> b]

\* What a call hands back: (result, err), whether it printed the warning,
\* whether it ended in a run-time panic instead of returning, and which of the
\* resources it acquired are still open afterwards.
Out(result, err) ==
    [result |-> result, err |-> err, warned |-> FALSE, panicked |-> FALSE,
     fileOpen |-> FALSE, bodyOpen |-> FALSE]
Panic == [Out(GNilMap, NoErr) EXCEPT !.panicked = TRUE]

\* makeRequest from client.Do on: defer res.Body.Close(), then decode.
MakeRequestRecv(net) ==
    IF net.kind = "err" THEN Out(GNilMap, ErrTransport)
    ELSE LET d == Decode(net.body)
         IN IF ~d.ok THEN Out(GNilMap, ErrDecode)
            ELSE Out(d.result, NoErr)

CreateFileRecvLeak(net) ==
    IF net.kind = "err" THEN Out(GNilMap, ErrTransport)
    ELSE LET d == Decode(net.body)
         IN IF ~d.ok THEN [Out(GNilMap, ErrDecode) EXCEPT !.fileOpen = TRUE]
            ELSE Out(d.result, NoErr)

\* CreateFile from client.Do on; file.Close() and res.Body.Close() are deferred.
CreateFileRecv(net) ==
    IF net.kind = "err" THEN Out(GNilMap, ErrTransport)
    ELSE LET d == Decode(net.body)
         IN IF ~d.ok THEN Out(GNilMap, ErrDecode)
            ELSE Out(d.result, NoErr)

\* ReadFileByID from client.Do on; res.Body.Close() is deferred.
ReadFileByIDRecv(net) ==
    IF net.kind = "err" THEN Out(GNilMap, ErrTransport)
    ELSE LET d == Decode(net.body)
         IN IF ~d.ok THEN Out(GNilMap, ErrDecode)
            ELSE Out(d.result, NoErr)

\* resp[key]: the zero value (nil interface) on a nil map or a missing key.
Lookup(resp, key) ==
    IF resp.g = "map" /\ key \in DOMAIN resp.m THEN resp.m[key] ELSE GNil
\* v.(float64) succeeds.
IsFloat(v) == v.g = "float64"

\* if err != nil { return nil, err }; return resp, nil
CreatePostReturn(mr) == IF mr.err # NoErr THEN Out(GNilMap, mr.err) ELSE mr
ReadPostByIDReturn(mr) == IF mr.err # NoErr THEN Out(GNilMap, mr.err) ELSE mr
ReadPostByFilterReturn(mr) == IF mr.err # NoErr THEN Out(GNilMap, mr.err) ELSE mr

UpdateCheckGeq(resp) ==
    LET mc == Lookup(resp, "matchedCount")
        md == Lookup(resp, "modifiedCount")
    IN IF ~IsFloat(mc) THEN Panic
       ELSE IF mc.f = 0 /\ ~IsFloat(md) THEN Panic
       ELSE IF mc.f = 0 /\ md.f = 0 THEN Out(GNilMap, ErrNoUpdatesMade)
       ELSE IF ~IsFloat(md) THEN Panic
       ELSE [Out(resp, NoErr) EXCEPT !.warned = (mc.f >= md.f)]

\* The two count checks of the update operations, evaluated left to right
\* with Go's short-circuit &&; a failed type assertion panics.
UpdateCheck(resp) ==
    LET mc == Lookup(resp, "matchedCount")
        md == Lookup(resp, "modifiedCount")
    IN IF ~IsFloat(mc) THEN Panic
       ELSE IF mc.f = 0 /\ ~IsFloat(md) THEN Panic
       ELSE IF mc.f = 0 /\ md.f = 0 THEN Out(GNilMap, ErrNoUpdatesMade)
       ELSE IF ~IsFloat(md) THEN Panic
       ELSE [Out(resp, NoErr) EXCEPT !.warned = (mc.f > md.f)]

UpdatePostByIDReturn(mr) ==
    IF mr.err # NoErr THEN Out(GNilMap, mr.err) ELSE UpdateCheck(mr.result)
UpdatePostByFilterReturn(mr) ==
    IF mr.err # NoErr THEN Out(GNilMap, mr.err) ELSE UpdateCheck(mr.result)

DeleteCheckOne(resp) ==
    LET dc == Lookup(resp, "deletedCount")
    IN IF ~IsFloat(dc) THEN Panic
       ELSE IF dc.f <= 1 THEN Out(GNilMap, ErrFailedDelete)
       ELSE Out(resp, NoErr)

\* The deletedCount check of the delete operations.
DeleteCheck(resp) ==
    LET dc == Lookup(resp, "deletedCount")
    IN IF ~IsFloat(dc) THEN Panic
       ELSE IF dc.f = 0 THEN Out(GNilMap, ErrFailedDelete)
       ELSE Out(resp, NoErr)

DeletePostByIDReturn(mr) ==
    IF mr.err # NoErr THEN Out(GNilMap, mr.err) ELSE DeleteCheck(mr.result)
DeletePostByFilterReturn(mr) ==
    IF mr.err # NoErr THEN Out(GNilMap, mr.err) ELSE DeleteCheck(mr.result)

\* The rest of operation op once client.Do has answered net.
Return(op, net) ==
    CASE op = "CreatePost" -> CreatePostReturn(MakeRequestRecv(net))
      [] op = "CreateFile" -> CreateFileRecv(net)
      [] op = "ReadPostByID" -> ReadPostByIDReturn(MakeRequestRecv(net))
      [] op = "ReadPostByFilter" -> ReadPostByFilterReturn(MakeRequestRecv(net))
      [] op = "ReadFileByID" -> ReadFileByIDRecv(net)
      [] op = "UpdatePostByID" -> UpdatePostByIDReturn(MakeRequestRecv(net))
      [] op = "UpdatePostByFilter" -> UpdatePostByFilterReturn(MakeRequestRecv(net))
      [] op = "DeletePostByID" -> DeletePostByIDReturn(MakeRequestRecv(net))
      [] op = "DeletePostByFilter" -> DeletePostByFilterReturn(MakeRequestRecv(net))

\* ------------------------------------------------------------- inputs
Strings == {EmptyStr, <<"abc">>, <<"a", "&", "b">>, <<"a", "#", "b">>, <<CTL>>}
Maps == {GNilMap, EmptyMap, GMap("x" :> GInt(1)), GMap("c" :> GChan)}
Filters == {GNil} \cup Maps
Sorts == {GNil, GNilMap, GMap("name" :> GInt(1))}
Limits == -1..MaxLimit
FileEnvs == {[s |-> "noent", bytes |-> << >>], [s |-> "readerr", bytes |-> << >>],
             [s |-> "ok", bytes |-> << >>], [s |-> "ok", bytes |-> <<7>>]}
Counts == 0..MaxCount
Bodies ==
    {JInvalid, JNull, JArr, JObj(<< >>)}
    \cup {JObj(("matchedCount" :> JNum(m)) @@ ("modifiedCount" :> JNum(n))) :
            m \in Counts, n \in Counts}
    \cup {JObj("deletedCount" :> JNum(d)) : d \in Counts}
    \cup {JObj("matchedCount" :> JNum(0)), JObj("matchedCount" :> JNum(1)),
          JObj(("matchedCount" :> JStr("1")) @@ ("modifiedCount" :> JNum(1))),
          JObj(("matchedCount" :> JNum(1)) @@ ("modifiedCount" :> JNull)),
          JObj("deletedCount" :> JStr("1"))}
Nets == {NetErr} \cup {NetBody(b) : b \in Bodies}
HeaderWrites == {<<"Authorization", "token">>}

\* The same, cut down for the runs with two concurrent callers.
FewStrings == {EmptyStr, <<"abc">>}
FewMaps == {GNilMap, GMap("x" :> GInt(1))}
FewFilters == {GNil, GMap("x" :> GInt(1))}
FewSorts == {GNil}
FewLimits == {0}
FewFileEnvs == {[s |-> "noent", bytes |-> << >>], [s |-> "ok", bytes |-> <<7>>]}
FewNets == {NetErr, NetBody(JInvalid),
            NetBody(JObj(("matchedCount" :> JNum(1)) @@ ("modifiedCount" :> JNum(1)))),
            NetBody(JObj("deletedCount" :> JNum(1)))}

\* ------------------------------------------------------------- state
Procs == {"p1", "p2"}

VARIABLES
    ctor,        \* the arguments and the return values of the last NewRacs call
    client,      \* the Racs object the callers hold (Nil while there is none)
    touched,     \* whether a caller has written to client.Headers
    calls        \* per caller: the call it is in, or the call that returned last

vars == <<ctor, client, touched, calls>>

NoArgs == [none |-> TRUE]
NoNet == [kind |-> "none", body |-> JInvalid]
Idle ==
    [pc |-> "idle", op |-> "none", args |-> NoArgs, sent |-> << >>,
     fopened |-> FALSE, net |-> NoNet,
     result |-> GNilMap, err |-> NoErr, warned |-> FALSE, panicked |-> FALSE,
     fileOpen |-> FALSE, bodyOpen |-> FALSE]

\* What a NewRacs(resource, dataset) call leaves with its caller.
Constructed(resource, dataset) ==
    LET n == NewRacs(resource, dataset)
    IN [resource |-> resource, dataset |-> dataset, ret |-> n.client, err |-> n.err]

InitFrom(S) ==
    /\ ctor \in {Constructed(resource, dataset) : resource \in S, dataset \in S}
    /\ client = ctor.ret
    /\ touched = FALSE
    /\ calls = [p \in Procs |-> Idle]

Init == InitFrom(Strings)

\* ------------------------------------------------------------- actions
\* A caller constructs a client while no call is under way; the callers go on
\* with the new object.
Construct(resource, dataset) ==
    /\ \A p \in Procs : calls[p].pc = "idle"
    /\ ctor' = Constructed(resource, dataset)
    /\ client' = ctor'.ret
    /\ touched' = FALSE
    /\ UNCHANGED calls

\* A caller writes client.Headers[k] = v between calls.
SetHeader(k, v) ==
    /\ client # Nil
    /\ client' = [client EXCEPT !.Headers = (k :> v) @@ @]
    /\ touched' = TRUE
    /\ UNCHANGED <<ctor, calls>>

\* Caller p enters operation op: the handler runs until it returns early or
\* blocks in client.Do with its request out.
Begin(p, op, args, prep) ==
    /\ client # Nil
    /\ calls[p].pc = "idle"
    /\ calls' = [calls EXCEPT ![p] =
                   [Idle EXCEPT !.pc = IF prep.err = NoErr THEN "inflight" ELSE "done",
                                !.op = op, !.args = args, !.sent = prep.sent,
                                !.fopened = prep.fopened, !.fileOpen = prep.fileOpen,
                                !.err = prep.err]]
    /\ client' = prep.r
    /\ UNCHANGED <<ctor, touched>>

CallCreatePost(p, data) ==
    Begin(p, "CreatePost", [data |-> data], CreatePostSend(client, data))
CallCreateFile(p, filePath, fenv) ==
    Begin(p, "CreateFile", [filePath |-> filePath, fenv |-> fenv],
          CreateFileSend(client, filePath, fenv))
CallReadPostByID(p, postID) ==
    Begin(p, "ReadPostByID", [postID |-> postID], ReadPostByIDSend(client, postID))
CallReadPostByFilter(p, filterData, sort, limit) ==
    Begin(p, "ReadPostByFilter", [filterData |-> filterData, sort |-> sort, limit |-> limit],
          ReadPostByFilterSend(client, filterData, sort, limit))
CallReadFileByID(p, postID) ==
    Begin(p, "ReadFileByID", [postID |-> postID], ReadFileByIDSend(client, postID))
CallUpdatePostByID(p, postID, updateOptions) ==
    Begin(p, "UpdatePostByID", [postID |-> postID, updateOptions |-> updateOptions],
          UpdatePostByIDSend(client, postID, updateOptions))
CallUpdatePostByFilter(p, filterData, updateOptions) ==
    Begin(p, "UpdatePostByFilter",
          [filterData |-> filterData, updateOptions |-> updateOptions],
          UpdatePostByFilterSend(client, filterData, updateOptions))
CallDeletePostByID(p, postID) ==
    Begin(p, "DeletePostByID", [postID |-> postID], DeletePostByIDSend(client, postID))
CallDeletePostByFilter(p, filterData) ==
    Begin(p, "DeletePostByFilter", [filterData |-> filterData],
          DeletePostByFilterSend(client, filterData))

\* client.Do of caller p returns: a transport error, or a response.
Respond(p, net) ==
    /\ calls[p].pc = "inflight"
    /\ calls' = [calls EXCEPT ![p].pc = "responded", ![p].net = net,
                              ![p].bodyOpen = (net.kind = "body")]
    /\ UNCHANGED <<ctor, client, touched>>

\* Caller p's handler runs from client.Do's return to its own.
Finish(p) ==
    /\ calls[p].pc = "responded"
    /\ LET out == Return(calls[p].op, calls[p].net)
       IN calls' = [calls EXCEPT ![p].pc = "done",
                                 ![p].result = out.result, ![p].err = out.err,
                                 ![p].warned = out.warned, ![p].panicked = out.panicked,
                                 ![p].fileOpen = out.fileOpen, ![p].bodyOpen = out.bodyOpen]
    /\ UNCHANGED <<ctor, client, touched>>

\* Caller p has taken the values its call returned and is ready to call again.
Release(p) ==
    /\ calls[p].pc = "done"
    /\ calls' = [calls EXCEPT ![p] = Idle]
    /\ UNCHANGED <<ctor, client, touched>>

\* One caller, the full input sets.
Next ==
    \/ \E resource \in Strings, dataset \in Strings : Construct(resource, dataset)
    \/ \E kv \in HeaderWrites : SetHeader(kv[1], kv[2])
    \/ \E data \in Maps : CallCreatePost("p1", data)
    \/ \E filePath \in Strings, fenv \in FileEnvs : CallCreateFile("p1", filePath, fenv)
    \/ \E postID \in Strings : CallReadPostByID("p1", postID)
    \/ \E filterData \in Filters, sort \in Sorts, limit \in Limits :
          CallReadPostByFilter("p1", filterData, sort, limit)
    \/ \E postID \in Strings : CallReadFileByID("p1", postID)
    \/ \E postID \in Strings, updateOptions \in Maps :
          CallUpdatePostByID("p1", postID, updateOptions)
    \/ \E filterData \in Maps, updateOptions \in Maps :
          CallUpdatePostByFilter("p1", filterData, updateOptions)
    \/ \E postID \in Strings : CallDeletePostByID("p1", postID)
    \/ \E filterData \in Maps : CallDeletePostByFilter("p1", filterData)
    \/ \E net \in Nets : Respond("p1", net)
    \/ Finish("p1")
    \/ Release("p1")

Spec == Init /\ [][Next]_vars

\* Two callers on one client, the cut-down input sets.
InitConc == InitFrom(FewStrings)

NextConc ==
    \/ \E resource \in FewStrings, dataset \in FewStrings : Construct(resource, dataset)
    \/ \E kv \in HeaderWrites : SetHeader(kv[1], kv[2])
    \/ \E p \in Procs :
        \/ \E data \in FewMaps : CallCreatePost(p, data)
        \/ \E filePath \in FewStrings, fenv \in FewFileEnvs : CallCreateFile(p, filePath, fenv)
        \/ \E postID \in FewStrings : CallReadPostByID(p, postID)
        \/ \E filterData \in FewFilters, sort \in FewSorts, limit \in FewLimits :
              CallReadPostByFilter(p, filterData, sort, limit)
        \/ \E postID \in FewStrings : CallReadFileByID(p, postID)
        \/ \E postID \in FewStrings, updateOptions \in FewMaps :
              CallUpdatePostByID(p, postID, updateOptions)
        \/ \E filterData \in FewMaps, updateOptions \in FewMaps :
              CallUpdatePostByFilter(p, filterData, updateOptions)
        \/ \E postID \in FewStrings : CallDeletePostByID(p, postID)
        \/ \E filterData \in FewMaps : CallDeletePostByFilter(p, filterData)
        \/ \E net \in FewNets : Respond(p, net)
        \/ Finish(p)
        \/ Release(p)

ConcSpec == InitConc /\ [][NextConc]_vars

\* ------------------------------------------------------------- properties
IsUpdate(op) == op \in {"UpdatePostByID", "UpdatePostByFilter"}
IsDelete(op) == op \in {"DeletePostByID", "DeletePostByFilter"}
\* The response body is a JSON object whose member k is a number.
NumField(body, k) == body.j = "obj" /\ k \in DOMAIN body.m /\ body.m[k].j = "num"
\* The map a JSON object of numbers decodes to.
NumberMap(body) == GMap([k \in DOMAIN body.m |-> GFloat(body.m[k].n)])

\* C1: an update call whose response carries numeric matchedCount and
\* modifiedCount returns (nil, ErrNoUpdatesMade) exactly when both are 0, and
\* otherwise the decoded map with no error, warning exactly when
\* matchedCount > modifiedCount.
C1_UpdateOutcome ==
    \A p \in Procs :
        LET c == calls[p]
        IN (/\ c.pc = "done" /\ IsUpdate(c.op) /\ c.net.kind = "body"
            /\ NumField(c.net.body, "matchedCount")
            /\ NumField(c.net.body, "modifiedCount"))
           => LET m == c.net.body.m["matchedCount"].n
                  n == c.net.body.m["modifiedCount"].n
              IN /\ ~c.panicked
                 /\ (c.err = ErrNoUpdatesMade) <=> (m = 0 /\ n = 0)
                 /\ IF m = 0 /\ n = 0
                    THEN c.result = GNilMap /\ ~c.warned
                    ELSE /\ c.err = NoErr
                         /\ c.result = NumberMap(c.net.body)
                         /\ c.warned <=> (m > n)

C1_Witness ==
    \E p \in Procs :
        /\ calls[p].pc = "done" /\ calls[p].op = "UpdatePostByID"
        /\ calls[p].net = NetBody(JObj(("matchedCount" :> JNum(2))
                                       @@ ("modifiedCount" :> JNum(1))))
        /\ calls[p].warned /\ calls[p].err = NoErr

\* C2: a delete call whose response carries a numeric deletedCount returns
\* (nil, ErrFailedDelete) when it is 0 and the decoded map with no error when
\* it is at least 1.
C2_DeleteOutcome ==
    \A p \in Procs :
        LET c == calls[p]
        IN (/\ c.pc = "done" /\ IsDelete(c.op) /\ c.net.kind = "body"
            /\ NumField(c.net.body, "deletedCount"))
           => LET d == c.net.body.m["deletedCount"].n
              IN /\ ~c.panicked
                 /\ d = 0 => c.err = ErrFailedDelete /\ c.result = GNilMap
                 /\ d >= 1 => c.err = NoErr /\ c.result = NumberMap(c.net.body)

C2_Witness ==
    \E p \in Procs :
        /\ calls[p].pc = "done" /\ calls[p].op = "DeletePostByFilter"
        /\ calls[p].net = NetBody(JObj("deletedCount" :> JNum(1)))
        /\ calls[p].err = NoErr /\ calls[p].result # GNilMap

\* A required argument of the call is missing.
Missing(op, args) ==
    CASE op = "CreatePost" -> args.data = GNilMap
      [] op = "CreateFile" -> args.filePath = EmptyStr
      [] op \in {"ReadPostByID", "ReadFileByID", "DeletePostByID"} ->
            args.postID = EmptyStr
      [] op = "UpdatePostByID" ->
            args.postID = EmptyStr \/ args.updateOptions = GNilMap
      [] op = "UpdatePostByFilter" ->
            args.filterData = GNilMap \/ args.updateOptions = GNilMap
      [] op = "DeletePostByFilter" -> args.filterData = GNilMap
      [] OTHER -> FALSE

\* C3: a call with a missing required argument has returned (nil, validation
\* error) at once: it issued no request, called os.Open on no file, and never
\* waited for a response.
C3_ValidationFirst ==
    \A p \in Procs :
        LET c == calls[p]
        IN (c.pc # "idle" /\ Missing(c.op, c.args))
           => /\ c.pc = "done" /\ c.err = ErrValidation /\ c.result = GNilMap
              /\ c.sent = << >> /\ ~c.fopened /\ c.net = NoNet /\ ~c.panicked

C3_Witness ==
    \E p \in Procs :
        /\ calls[p].pc = "done" /\ calls[p].op = "UpdatePostByFilter"
        /\ calls[p].args.filterData # GNilMap
        /\ calls[p].args.updateOptions = GNilMap
        /\ calls[p].err = ErrValidation

\* C4: a mutation call whose response body decodes never ends in a panic,
\* whatever the body holds.
C4_NoPanic ==
    \A p \in Procs :
        LET c == calls[p]
        IN (/\ c.pc = "done" /\ (IsUpdate(c.op) \/ IsDelete(c.op))
            /\ c.net.kind = "body" /\ c.net.body.j \in {"null", "obj"})
           => ~c.panicked

\* C5 as stated: every call that has returned issued exactly one request.
C5_ExactlyOne ==
    \A p \in Procs : calls[p].pc = "done" => Len(calls[p].sent) = 1

\* The arguments of the call hold nothing json.Marshal rejects.
ArgsMarshal(op, args) ==
    CASE op = "CreatePost" -> MarshalOK(args.data)
      [] op = "ReadPostByFilter" -> MarshalOK(args.filterData) /\ MarshalOK(args.sort)
      [] op = "UpdatePostByID" -> MarshalOK(args.updateOptions)
      [] op = "UpdatePostByFilter" ->
            MarshalOK(args.filterData) /\ MarshalOK(args.updateOptions)
      [] op = "DeletePostByFilter" -> MarshalOK(args.filterData)
      [] OTHER -> TRUE
\* The strings the call puts in its URL hold no control byte.
URLClean(r, op, args) ==
    /\ ~HasToken(r.Resource, CTL) /\ ~HasToken(r.Dataset, CTL)
    /\ op \in {"ReadPostByID", "ReadFileByID", "UpdatePostByID", "DeletePostByID"}
          => ~HasToken(args.postID, CTL)
\* The call gets as far as client.Do.
Buildable(r, op, args) ==
    /\ ~Missing(op, args)
    /\ ArgsMarshal(op, args)
    /\ op = "CreateFile" => args.fenv.s = "ok"
    /\ URLClean(r, op, args)

\* C5 (amended): a call issues at most one request: one when its required
\* arguments are present and its request can be built, none otherwise; and none
\* is added after the response, whatever the response is.
C5_AtMostOne ==
    \A p \in Procs :
        LET c == calls[p]
        IN c.pc # "idle"
           => /\ Len(c.sent) <= 1
              /\ Len(c.sent) = 1 <=> Buildable(client, c.op, c.args)
              /\ Len(c.sent) = 0 => c.pc = "done" /\ c.net = NoNet

C5_Witness ==
    \E p \in Procs :
        /\ calls[p].pc = "done" /\ calls[p].op = "DeletePostByID"
        /\ calls[p].err = ErrFailedDelete /\ Len(calls[p].sent) = 1

\* C6: NewRacs returns (nil, validation error) when resource or dataset is
\* empty, and otherwise no error and a client holding the two arguments, the
\* base URL https://racs.rest/v3 and the single header Content-Type:
\* application/json.
C6_NewRacs ==
    IF ctor.resource = EmptyStr \/ ctor.dataset = EmptyStr
    THEN ctor.ret = Nil /\ ctor.err = ErrValidation
    ELSE /\ ctor.err = NoErr
         /\ ctor.ret = [Resource |-> ctor.resource,
                        Dataset |-> ctor.dataset,
                        BaseURL |-> <<"https://racs.rest/v3">>,
                        Headers |-> [k \in {"Content-Type"} |-> "application/json"]]

C6_Witness ==
    /\ ctor.resource # EmptyStr /\ ctor.dataset = EmptyStr
    /\ ctor.ret = Nil /\ ctor.err = ErrValidation

\* C7: the body ReadPostByFilter sends is the JSON object {filter, sort, limit}
\* in which a nil filter is {}, a nil sort is {_created: -1}, a limit of 0 is 1,
\* and every other argument is the argument itself.
C7_FilterDefaults ==
    \A p \in Procs :
        LET c == calls[p]
        IN (c.op = "ReadPostByFilter" /\ Len(c.sent) = 1)
           => LET f == IF c.args.filterData = GNil THEN JObj(<< >>)
                       ELSE MarshalJSON(c.args.filterData)
                  s == IF c.args.sort = GNil THEN JObj("_created" :> JNum(-1))
                       ELSE MarshalJSON(c.args.sort)
                  l == IF c.args.limit = 0 THEN 1 ELSE c.args.limit
              IN c.sent[1].body =
                    BodyJSON(JObj([k \in {"filter", "sort", "limit"} |->
                                     CASE k = "filter" -> f
                                       [] k = "sort" -> s
                                       [] k = "limit" -> JNum(l)]))

C7_Witness ==
    \E p \in Procs :
        /\ calls[p].op = "ReadPostByFilter" /\ Len(calls[p].sent) = 1
        /\ calls[p].args = [filterData |-> GNil, sort |-> GNil, limit |-> 0]
        /\ calls[p].sent[1].body.j.m["limit"] = JNum(1)
        /\ calls[p].sent[1].body.j.m["filter"] = JObj(<< >>)

\* The method, path and body section 4.1 of the specification gives operation op.
ExpMethod(op) ==
    CASE op \in {"CreatePost", "CreateFile", "ReadPostByFilter"} -> "POST"
      [] op \in {"ReadPostByID", "ReadFileByID"} -> "GET"
      [] op \in {"UpdatePostByID", "UpdatePostByFilter"} -> "PATCH"
      [] op \in {"DeletePostByID", "DeletePostByFilter"} -> "DELETE"
ExpPath(r, op, args) ==
    CASE op \in {"ReadPostByID", "UpdatePostByID", "DeletePostByID"} ->
            r.BaseURL \o <<"/">> \o args.postID
      [] op = "ReadPostByFilter" -> r.BaseURL \o <<"/", "get">>
      [] op = "ReadFileByID" -> r.BaseURL \o <<"/", "file", "/">> \o args.postID
      [] OTHER -> r.BaseURL
ExpBody(op, args) ==
    CASE op = "CreatePost" -> BodyJSON(MarshalJSON(args.data))
      [] op = "CreateFile" -> BodyRaw(args.fenv.bytes)
      [] op = "ReadPostByFilter" ->
            BodyJSON(MarshalJSON(
                ReadPostByFilterPayload(args.filterData, args.sort, args.limit)))
      [] op = "UpdatePostByID" ->
            BodyJSON(JObj("update" :> JObj("$set" :> MarshalJSON(args.updateOptions))))
      [] op = "UpdatePostByFilter" ->
            BodyJSON(JObj(("filter" :> MarshalJSON(args.filterData))
                          @@ ("update" :> JObj("$set" :> MarshalJSON(args.updateOptions)))))
      [] op = "DeletePostByFilter" ->
            BodyJSON(JObj("filter" :> MarshalJSON(args.filterData)))
      [] OTHER -> BodyNone
\* Request q of a call of op carries the client's resource and dataset as its
\* query parameters, and op's method, path and body.
RequestAsTabulated(r, op, args, q) ==
    /\ QueryGet(q.query, <<"resource">>) = r.Resource
    /\ QueryGet(q.query, <<"dataset">>) = r.Dataset
    /\ q.method = ExpMethod(op)
    /\ q.path = ExpPath(r, op, args)
    /\ q.body = ExpBody(op, args)

\* C8: every request issued carries the query parameters resource and dataset
\* with the client's values, and the method, path and body of its operation.
C8_RequestShape ==
    \A p \in Procs :
        LET c == calls[p]
        IN \A i \in 1..Len(c.sent) : RequestAsTabulated(client, c.op, c.args, c.sent[i])

\* s holds none of the characters a URL gives a meaning of its own.
Plain(s) == \A i \in 1..Len(s) : s[i] \notin {"?", "&", "=", "#", "/", CTL}
\* The same for requests built from strings without URL metacharacters.
RequestShapeWhenPlain ==
    \A p \in Procs :
        LET c == calls[p]
        IN \A i \in 1..Len(c.sent) :
            (/\ Plain(client.Resource) /\ Plain(client.Dataset)
             /\ "postID" \in DOMAIN c.args => Plain(c.args.postID))
            => RequestAsTabulated(client, c.op, c.args, c.sent[i])

\* What operation op does with client r up to client.Do.
SendOf(r, op, args) ==
    CASE op = "CreatePost" -> CreatePostSend(r, args.data)
      [] op = "CreateFile" -> CreateFileSend(r, args.filePath, args.fenv)
      [] op = "ReadPostByID" -> ReadPostByIDSend(r, args.postID)
      [] op = "ReadPostByFilter" ->
            ReadPostByFilterSend(r, args.filterData, args.sort, args.limit)
      [] op = "ReadFileByID" -> ReadFileByIDSend(r, args.postID)
      [] op = "UpdatePostByID" -> UpdatePostByIDSend(r, args.postID, args.updateOptions)
      [] op = "UpdatePostByFilter" ->
            UpdatePostByFilterSend(r, args.filterData, args.updateOptions)
      [] op = "DeletePostByID" -> DeletePostByIDSend(r, args.postID)
      [] op = "DeletePostByFilter" -> DeletePostByFilterSend(r, args.filterData)

\* Call c went as the same call goes on a client fresh from NewRacs with no
\* other call about: the same requests, and once returned the same outcome.
AsWhenAlone(c) ==
    LET fresh == NewRacs(ctor.resource, ctor.dataset).client
        alone == SendOf(fresh, c.op, c.args)
    IN /\ c.sent = alone.sent
       /\ c.pc = "done" =>
            IF alone.err # NoErr
            THEN c.err = alone.err /\ c.result = GNilMap
            ELSE LET out == Return(c.op, c.net)
                 IN /\ c.result = out.result /\ c.err = out.err
                    /\ c.warned = out.warned /\ c.panicked = out.panicked

\* C9: the operations leave the client's Resource, Dataset, BaseURL and
\* Headers as NewRacs set them, and while no caller has written to Headers every
\* call of every caller, however the calls interleave, builds the request and
\* returns the outcome it has when run alone.
C9_Isolation ==
    client # Nil =>
        /\ client.Resource = ctor.resource
        /\ client.Dataset = ctor.dataset
        /\ client.BaseURL = BaseURLDefault
        /\ ~touched =>
            /\ client.Headers = [k \in {"Content-Type"} |-> "application/json"]
            /\ \A p \in Procs : calls[p].pc # "idle" => AsWhenAlone(calls[p])

C9_Witness ==
    /\ ~touched
    /\ calls["p1"].pc = "inflight" /\ calls["p1"].op = "CreateFile"
    /\ calls["p2"].pc = "done" /\ calls["p2"].op = "UpdatePostByID"
    /\ calls["p2"].err = NoErr

\* C10: a caller that is not inside a call holds no open file and no open
\* response body, however its last call ended.
C10_Released ==
    \A p \in Procs :
        calls[p].pc \in {"idle", "done"} => ~calls[p].fileOpen /\ ~calls[p].bodyOpen

C10_Witness ==
    \E p \in Procs :
        /\ calls[p].pc = "done" /\ calls[p].op = "CreateFile"
        /\ calls[p].fopened /\ calls[p].net.kind = "body"
        /\ calls[p].err = ErrDecode

====
